---- MODULE Spec2Model ----
(***************************************************************************)
(* A model of src/src/chunk_tree.rs: ChunkTree<N>, a persistent ternary    *)
(* tree over a byte sequence, and of MenuState of src/src/ui/menu.rs.      *)
(*                                                                         *)
(* Arc<ChunkTree> values are modelled as indices into `heap`, the sequence *)
(* of every node allocated so far (Arc::new appends a node and returns its *)
(* index), so that two references are identical iff their indices are      *)
(* equal.  A panic is modelled as a result with ok = FALSE: the call       *)
(* returns no tree, and the nodes it allocated are dropped while           *)
(* unwinding.                                                              *)
(***************************************************************************)
EXTENDS Integers, Sequences, FiniteSets, TLC

\* Bounds of the model.
MaxN == 2       \* chunk thresholds N in 1..MaxN
MaxLen == 3     \* from_slice is called on inputs of length 0..MaxLen
MaxData == 2    \* insert is called with data of length 0..MaxData
MaxOps == 3     \* number of calls in one behaviour
MaxSlice == 8   \* SpecSlices calls from_slice on inputs of length 0..MaxSlice
MaxItems == 3   \* menus of 1..MaxItems items
MaxMenus == 3   \* next_menu and prev_menu are called with 1..MaxMenus menus
MaxUsize == 7   \* usize::MAX, scaled down: a usize is in 0..MaxUsize

VARIABLES
    N,      \* the const generic N of ChunkTree<'a, N>
    heap,   \* every node allocated so far; an Arc is an index into heap
    snaps,  \* the trees returned so far, with what was observed on return
    last,   \* the last call: its arguments and its outcome
    ncalls, \* the number of calls made so far
    active_menu,      \* MenuState::active_menu
    highlighted_item, \* MenuState::highlighted_item
    call    \* the running or last call on the MenuState: arguments, locals

tree_vars == <<N, heap, snaps, last, ncalls>>

menu_vars == <<active_menu, highlighted_item, call>>

vars == <<N, heap, snaps, last, ncalls, active_menu, highlighted_item, call>>

----------------------------------------------------------------------------
(* Nodes *)

\* ChunkTree::Leaf { data }
Leaf(data) ==
    [leaf |-> TRUE, data |-> data, left |-> 0, mid |-> 0, right |-> 0, size |-> 0]

\* ChunkTree::Internal { left, mid, right, size }
Internal(left, mid, right, size) ==
    [leaf |-> FALSE, data |-> <<>>, left |-> left, mid |-> mid, right |-> right,
     size |-> size]

\* Arc::new(node): a fresh allocation, distinct from every existing one.
Alloc(h, node) == [ok |-> TRUE, heap |-> Append(h, node), root |-> Len(h) + 1]

\* A panic: no tree is returned.
Panic(h) == [ok |-> FALSE, heap |-> h, root |-> 0]

\* &data[..i] and &data[i..] (callers check i <= data.len() first: the slice
\* expression panics otherwise).
SliceTo(data, i) == SubSeq(data, 1, i)
SliceFrom(data, i) == SubSeq(data, i + 1, Len(data))

----------------------------------------------------------------------------
(* from_slice, len, collect_bytes *)

\* Fault injection for C3: from_slice with the right half taken from
\* mid_index + 1, so that the byte at the split point is lost.
RECURSIVE from_slice_skips_split_byte(_, _)
from_slice_skips_split_byte(h, data) ==
    IF Len(data) <= N
    THEN Alloc(h, Leaf(data))
    ELSE LET mid_index == Len(data) \div 2
             l == from_slice_skips_split_byte(h, SliceTo(data, mid_index))
             r == from_slice_skips_split_byte(l.heap,
                                              SliceFrom(data, mid_index + 1))
             m == Alloc(r.heap, Leaf(<<>>))
         IN  Alloc(m.heap, Internal(l.root, m.root, r.root, Len(data)))

\* Fault injection for C12: from_slice splitting at ceil(len / 2).
RECURSIVE from_slice_splits_high(_, _)
from_slice_splits_high(h, data) ==
    IF Len(data) <= N
    THEN Alloc(h, Leaf(data))
    ELSE LET mid_index == (Len(data) + 1) \div 2
             l == from_slice_splits_high(h, SliceTo(data, mid_index))
             r == from_slice_splits_high(l.heap, SliceFrom(data, mid_index))
             m == Alloc(r.heap, Leaf(<<>>))
         IN  Alloc(m.heap, Internal(l.root, m.root, r.root, Len(data)))

\* Fault injection for C15: from_slice splitting off the first N bytes
\* instead of halving.
RECURSIVE from_slice_splits_off_chunk(_, _)
from_slice_splits_off_chunk(h, data) ==
    IF Len(data) <= N
    THEN Alloc(h, Leaf(data))
    ELSE LET mid_index == N
             l == from_slice_splits_off_chunk(h, SliceTo(data, mid_index))
             r == from_slice_splits_off_chunk(l.heap,
                                              SliceFrom(data, mid_index))
             m == Alloc(r.heap, Leaf(<<>>))
         IN  Alloc(m.heap, Internal(l.root, m.root, r.root, Len(data)))

RECURSIVE from_slice(_, _)
from_slice(h, data) ==
    IF Len(data) <= N
    THEN Alloc(h, Leaf(data))
    ELSE LET mid_index == Len(data) \div 2
             l == from_slice(h, SliceTo(data, mid_index))
             r == from_slice(l.heap, SliceFrom(data, mid_index))
             m == Alloc(r.heap, Leaf(<<>>))
         IN  Alloc(m.heap, Internal(l.root, m.root, r.root, Len(data)))

len(h, t) == IF h[t].leaf THEN Len(h[t].data) ELSE h[t].size

is_empty(h, t) == IF h[t].leaf THEN h[t].data = <<>> ELSE h[t].size = 0

RECURSIVE collect_bytes(_, _)
collect_bytes(h, t) ==
    IF h[t].leaf
    THEN h[t].data
    ELSE collect_bytes(h, h[t].left) \o collect_bytes(h, h[t].mid)
            \o collect_bytes(h, h[t].right)

----------------------------------------------------------------------------
(* insert *)

\* Fault injection for C9: a clone that copies the node into a new
\* allocation instead of sharing it.
arc_clone_copies_node(h, t) == Alloc(h, h[t])

\* mid.clone(), left.clone(), right.clone() on an Arc: the same node, shared.
arc_clone(h, t) == [ok |-> TRUE, heap |-> h, root |-> t]

\* Fault injection for C4: the Leaf arm of insert with size left at
\* leaf_data.len().
insert_leaf_stale_size(h, t, index, data) ==
    LET leaf_data == h[t].data IN
    IF index > Len(leaf_data)
    THEN Panic(h)
    ELSE LET left == from_slice(h, SliceTo(leaf_data, index))
             mid == from_slice(left.heap, data)
             right == from_slice(mid.heap, SliceFrom(leaf_data, index))
         IN  Alloc(right.heap,
                   Internal(left.root, mid.root, right.root, Len(leaf_data)))

\* Fault injection for C8: the Leaf arm of insert writing the new Internal
\* node over self instead of allocating it.
insert_leaf_in_place(h, t, index, data) ==
    LET leaf_data == h[t].data IN
    IF index > Len(leaf_data)
    THEN Panic(h)
    ELSE LET left == from_slice(h, SliceTo(leaf_data, index))
             mid == from_slice(left.heap, data)
             right == from_slice(mid.heap, SliceFrom(leaf_data, index))
             node == Internal(left.root, mid.root, right.root,
                              Len(leaf_data) + Len(data))
         IN  [ok |-> TRUE, heap |-> [right.heap EXCEPT ![t] = node],
              root |-> t]

\* The Leaf arm of insert; t is self.  &leaf_data[..index] panics when
\* index > leaf_data.len().
\* Fault injection for C17: the inserted bytes stored as one Leaf, without
\* the split of from_slice.
insert_leaf_stores_data_whole(h, t, index, data) ==
    LET leaf_data == h[t].data IN
    IF index > Len(leaf_data)
    THEN Panic(h)
    ELSE LET left == from_slice(h, SliceTo(leaf_data, index))
             mid == Alloc(left.heap, Leaf(data))
             right == from_slice(mid.heap, SliceFrom(leaf_data, index))
         IN  Alloc(right.heap,
                   Internal(left.root, mid.root, right.root,
                            Len(leaf_data) + Len(data)))

insert_leaf(h, t, index, data) ==
    LET leaf_data == h[t].data IN
    IF index > Len(leaf_data)
    THEN Panic(h)
    ELSE LET left == from_slice(h, SliceTo(leaf_data, index))
             mid == from_slice(left.heap, data)
             right == from_slice(mid.heap, SliceFrom(leaf_data, index))
         IN  Alloc(right.heap,
                   Internal(left.root, mid.root, right.root,
                            Len(leaf_data) + Len(data)))

\* Fault injection for C13: the index tests with < for the left child, so
\* that a tie at index = left_size goes to a later child.
insert_child_ties_later(index, left_size, mid_len, right_len) ==
    IF index < left_size THEN "left"
    ELSE IF index <= left_size + mid_len THEN "mid"
    ELSE IF index <= left_size + mid_len + right_len THEN "right"
    ELSE "panic"

\* The if / else-if chain of the Internal arm: the child that receives the
\* insert, or the panic of the final else.
insert_child(index, left_size, mid_len, right_len) ==
    IF index <= left_size THEN "left"
    ELSE IF index <= left_size + mid_len THEN "mid"
    ELSE IF index <= left_size + mid_len + right_len THEN "right"
    ELSE "panic"

RECURSIVE insert(_, _, _, _)

\* The Internal arm of insert; t is self.
insert_internal(h, t, index, data) ==
    LET left == h[t].left
        mid == h[t].mid
        right == h[t].right
        left_size == len(h, left)
        child == insert_child(index, left_size, len(h, mid), len(h, right))
    IN  CASE child = "left" ->
               LET new_left == insert(h, left, index, data) IN
               IF ~new_left.ok THEN Panic(h)
               ELSE LET new_size == len(new_left.heap, new_left.root)
                                       + len(h, mid) + len(h, right)
                        m == arc_clone(new_left.heap, mid)
                        r == arc_clone(m.heap, right)
                    IN  Alloc(r.heap,
                              Internal(new_left.root, m.root, r.root, new_size))
          [] child = "mid" ->
               LET new_mid == insert(h, mid, index - left_size, data) IN
               IF ~new_mid.ok THEN Panic(h)
               ELSE LET new_size == left_size
                                       + len(new_mid.heap, new_mid.root)
                                       + len(h, right)
                        l == arc_clone(new_mid.heap, left)
                        r == arc_clone(l.heap, right)
                    IN  Alloc(r.heap,
                              Internal(l.root, new_mid.root, r.root, new_size))
          [] child = "right" ->
               LET new_right ==
                       insert(h, right, index - left_size - len(h, mid), data)
               IN
               IF ~new_right.ok THEN Panic(h)
               ELSE LET new_size == left_size + len(h, mid)
                                       + len(new_right.heap, new_right.root)
                        l == arc_clone(new_right.heap, left)
                        m == arc_clone(l.heap, mid)
                    IN  Alloc(m.heap,
                              Internal(l.root, m.root, new_right.root, new_size))
          [] OTHER -> Panic(h)

insert(h, t, index, data) ==
    IF h[t].leaf
    THEN insert_leaf(h, t, index, data)
    ELSE insert_internal(h, t, index, data)

----------------------------------------------------------------------------
(* remove *)

\* A Range<usize>; start > end is a legal value of the type.
Range(s, e) == [start |-> s, end |-> e]

\* Range<usize>::len(): end - start, and 0 when start >= end.
range_len(range) ==
    IF range.start < range.end THEN range.end - range.start ELSE 0

\* usize::saturating_sub
saturating_sub(a, b) == IF a >= b THEN a - b ELSE 0

min(a, b) == IF a <= b THEN a ELSE b

range_shift_left(range, amount) ==
    Range(saturating_sub(range.start, amount), saturating_sub(range.end, amount))

range_cap(range, max) == Range(min(range.start, max), min(range.end, max))

\* Fault injection for C10: the Leaf arm of remove returning self, shared,
\* when the range removes nothing.
remove_leaf_shares_untouched(h, t, range) ==
    LET data == h[t].data IN
    IF range.start > Len(data)
    THEN Panic(h)
    ELSE LET left == from_slice(h, SliceTo(data, range.start))
             mid == from_slice(left.heap, <<>>)
         IN  IF range.end > Len(data)
             THEN Panic(h)
             ELSE IF range_len(range) = 0
             THEN [ok |-> TRUE, heap |-> h, root |-> t]
             ELSE LET right == from_slice(mid.heap, SliceFrom(data, range.end))
                  IN  Alloc(right.heap,
                            Internal(left.root, mid.root, right.root,
                                     Len(data) - range_len(range)))

\* Fault injection for C11: the Leaf arm of remove with size left at
\* data.len().
remove_leaf_stale_size(h, t, range) ==
    LET data == h[t].data IN
    IF range.start > Len(data)
    THEN Panic(h)
    ELSE LET left == from_slice(h, SliceTo(data, range.start))
             mid == from_slice(left.heap, <<>>)
         IN  IF range.end > Len(data)
             THEN Panic(h)
             ELSE LET right == from_slice(mid.heap, SliceFrom(data, range.end))
                  IN  Alloc(right.heap,
                            Internal(left.root, mid.root, right.root,
                                     Len(data)))

\* The Leaf arm of remove; t is self.  &data[..range.start] and
\* &data[range.end..] panic when the bound exceeds data.len().
remove_leaf(h, t, range) ==
    LET data == h[t].data IN
    IF range.start > Len(data)
    THEN Panic(h)
    ELSE LET left == from_slice(h, SliceTo(data, range.start))
             mid == from_slice(left.heap, <<>>)
         IN  IF range.end > Len(data)
             THEN Panic(h)
             ELSE LET right == from_slice(mid.heap, SliceFrom(data, range.end))
                  IN  Alloc(right.heap,
                            Internal(left.root, mid.root, right.root,
                                     Len(data) - range_len(range)))

\* Fault injection for C7: the bounds test without its test of range.start.
remove_check_end_only(range, self_len) == range.end > self_len

\* The bounds test that opens the Internal arm of remove: TRUE when it panics.
remove_check(range, self_len) ==
    range.start > self_len \/ range.end > self_len

\* The two assertions that close the Internal arm of remove: TRUE when both
\* pass.
remove_asserts(size, new_size, range) ==
    /\ size >= new_size
    /\ size - range_len(range_cap(range, size)) = new_size

RECURSIVE remove(_, _, _)

\* The Internal arm of remove; t is self.
remove_internal(h, t, range) ==
    LET left == h[t].left
        mid == h[t].mid
        right == h[t].right
        size == h[t].size
    IN  IF remove_check(range, len(h, t))
        THEN Panic(h)
        ELSE IF range.start > size
        THEN LET l == arc_clone(h, left)
                 m == arc_clone(l.heap, mid)
                 r == arc_clone(m.heap, right)
             IN  Alloc(r.heap, Internal(l.root, m.root, r.root, size))
        ELSE
        LET new_left == remove(h, left, range_cap(range, len(h, left))) IN
        IF ~new_left.ok THEN Panic(h) ELSE
        LET new_mid ==
                remove(new_left.heap, mid,
                       range_cap(range_shift_left(range, len(h, left)),
                                 len(h, mid)))
        IN
        IF ~new_mid.ok THEN Panic(h) ELSE
        LET new_right ==
                remove(new_mid.heap, right,
                       range_cap(range_shift_left(range,
                                                  len(h, left) + len(h, mid)),
                                 len(h, right)))
        IN
        IF ~new_right.ok THEN Panic(h) ELSE
        LET hh == new_right.heap
            new_size == len(hh, new_left.root) + len(hh, new_mid.root)
                           + len(hh, new_right.root)
        IN  IF ~remove_asserts(size, new_size, range)
            THEN Panic(h)
            ELSE Alloc(hh, Internal(new_left.root, new_mid.root,
                                    new_right.root, new_size))

\* Fault injection for C16: remove returning self, shared, when the range
\* is in bounds and removes nothing.
remove_skips_empty_range(h, t, range) ==
    IF range.start = range.end /\ range.end <= len(h, t)
    THEN arc_clone(h, t)
    ELSE IF h[t].leaf
    THEN remove_leaf(h, t, range)
    ELSE remove_internal(h, t, range)

remove(h, t, range) ==
    IF h[t].leaf
    THEN remove_leaf(h, t, range)
    ELSE remove_internal(h, t, range)

----------------------------------------------------------------------------
(* The calls a client makes.  A client holds any of the trees returned so   *)
(* far (snaps) and may call insert or remove on any of them, with any       *)
(* index and any Range<usize>, start > end included.                        *)

\* The byte strings handed to from_slice and to insert.  The tree never
\* inspects a byte, so strings of pairwise distinct bytes show every
\* reordering, loss or duplication.
Bytes(first, n) == [j \in 1..n |-> first + j]
Inputs == {Bytes(0, n) : n \in 0..MaxLen}
Datas == {Bytes(10, n) : n \in 0..MaxData}

NoCall ==
    [op |-> "none", src |-> 0, a |-> 0, b |-> 0, data |-> <<>>, ok |-> TRUE,
     snap |-> 0, pre_bytes |-> <<>>, pre_size |-> 0, pre_snaps |-> 0,
     pre_heap |-> 0]

\* What is recorded of the call made on snaps[k] (k = 0: no receiver) whose
\* result is r.
Call(op, k, a, b, data, r) ==
    [op |-> op, src |-> k, a |-> a, b |-> b, data |-> data, ok |-> r.ok,
     snap |-> IF r.ok THEN Len(snaps) + 1 ELSE 0,
     pre_bytes |-> IF k = 0 THEN <<>> ELSE collect_bytes(heap, snaps[k].root),
     pre_size |-> IF k = 0 THEN 0 ELSE len(heap, snaps[k].root),
     pre_snaps |-> Len(snaps),
     pre_heap |-> Len(heap)]

\* The tree a successful call returned, with what a reader sees of it on
\* return.  inrange: the tree was built by in-range calls only (insert with
\* index <= len, remove with start <= end <= len).
Snap(op, k, a, b, data, r, inrange) ==
    [root |-> r.root, op |-> op, src |-> k, a |-> a, b |-> b, data |-> data,
     bytes |-> collect_bytes(r.heap, r.root), size |-> len(r.heap, r.root),
     inrange |-> inrange]

\* The effect of a call with result r: a panic returns nothing and drops
\* what it allocated.
Return(op, k, a, b, data, r, inrange) ==
    /\ last' = Call(op, k, a, b, data, r)
    /\ ncalls' = ncalls + 1
    /\ IF r.ok
       THEN /\ heap' = r.heap
            /\ snaps' = Append(snaps, Snap(op, k, a, b, data, r, inrange))
       ELSE UNCHANGED <<heap, snaps>>
    /\ UNCHANGED N
    /\ UNCHANGED menu_vars

\* Option<usize>.
None == [some |-> FALSE, value |-> 0]

Some(x) == [some |-> TRUE, value |-> x]

\* What is recorded of a call on the MenuState: the method, where it is
\* ("loop": in its while loop; "done": returned; "panic": panicked), its
\* arguments, its locals idx and next/prev (cursor), the number of times
\* the loop body has run, and the two fields as they were at the call.
MenuCall(op, pc, index, total_menus, menu, idx, cursor, iters) ==
    [op |-> op, pc |-> pc, index |-> index, total_menus |-> total_menus,
     menu |-> menu, idx |-> idx, cursor |-> cursor, iters |-> iters,
     pre_active |-> active_menu, pre_highlighted |-> highlighted_item]

NoMenuCall ==
    [op |-> "new", pc |-> "done", index |-> 0, total_menus |-> 0,
     menu |-> <<>>, idx |-> 0, cursor |-> 0, iters |-> 0,
     pre_active |-> None, pre_highlighted |-> None]

\* MenuState::new(): Default for both Option fields.
MenuState_new ==
    /\ active_menu = None
    /\ highlighted_item = None
    /\ call = NoMenuCall

Init ==
    /\ N \in 1..MaxN
    /\ heap = <<>>
    /\ snaps = <<>>
    /\ last = NoCall
    /\ ncalls = 0
    /\ MenuState_new

\* ChunkTree::<N>::new(): assert!(N > 0), then from_slice(&[]).
New ==
    /\ ncalls < MaxOps
    /\ Return("new", 0, 0, 0, <<>>,
              IF N > 0 THEN from_slice(heap, <<>>) ELSE Panic(heap), TRUE)

FromSlice(data) ==
    /\ ncalls < MaxOps
    /\ Return("from_slice", 0, 0, 0, data, from_slice(heap, data), TRUE)

Insert(k, index, data) ==
    /\ ncalls < MaxOps
    /\ Return("insert", k, index, 0, data,
              insert(heap, snaps[k].root, index, data), snaps[k].inrange)

Remove(k, start, end) ==
    /\ ncalls < MaxOps
    /\ Return("remove", k, start, end, <<>>,
              remove(heap, snaps[k].root, Range(start, end)),
              snaps[k].inrange /\ start <= end)

\* The arguments tried on snaps[k]: every position of its content, and one
\* past it.
Positions(k) == 0..(Len(snaps[k].bytes) + 1)

Next ==
    \/ New
    \/ \E data \in Inputs : FromSlice(data)
    \/ \E k \in 1..Len(snaps) : \E index \in Positions(k) : \E data \in Datas :
          Insert(k, index, data)
    \/ \E k \in 1..Len(snaps) : \E start \in Positions(k) :
          \E end \in Positions(k) : Remove(k, start, end)

Spec == Init /\ [][Next]_vars

\* from_slice alone, on longer inputs: the calls a client makes to build
\* trees.
NextSlices == \E n \in 0..MaxSlice : FromSlice(Bytes(0, n))

SpecSlices == Init /\ [][NextSlices]_vars

----------------------------------------------------------------------------
(* src/src/ui/menu.rs: MenuState *)

\* The variants of MenuItem.
Kinds == {"Action", "Separator", "Submenu"}

\* Menu::items of the menus passed to next_item and prev_item: not empty.
Menus == UNION {[1..n -> Kinds] : n \in 1..MaxItems}

\* matches!(item, MenuItem::Separator { .. })
is_separator(item) == item = "Separator"

\* The outcomes of a usize addition or subtraction whose exact result is
\* x: the result modulo 2^w (built without overflow checks), and, when x
\* is not a usize, a panic (built with overflow checks).
usize_arith(x) ==
    {[ok |-> TRUE, value |-> x % (MaxUsize + 1)]}
        \cup (IF x < 0 \/ x > MaxUsize
              THEN {[ok |-> FALSE, value |-> 0]}
              ELSE {})

\* (active + 1) % total_menus
next_menu_index(active, total_menus) ==
    {IF s.ok THEN [ok |-> TRUE, value |-> s.value % total_menus] ELSE s :
        s \in usize_arith(active + 1)}

\* (active + total_menus - 1) % total_menus
prev_menu_index(active, total_menus) ==
    UNION {IF s.ok
           THEN {IF d.ok
                 THEN [ok |-> TRUE, value |-> d.value % total_menus]
                 ELSE d : d \in usize_arith(s.value - 1)}
           ELSE {s} : s \in usize_arith(active + total_menus)}

\* No call on the MenuState is running: its methods take &mut self.
Idle == call.pc # "loop"

open_menu(index) ==
    /\ Idle
    /\ active_menu' = Some(index)
    /\ highlighted_item' = Some(0)
    /\ call' = MenuCall("open_menu", "done", index, 0, <<>>, 0, 0, 0)
    /\ UNCHANGED tree_vars

close_menu ==
    /\ Idle
    /\ active_menu' = None
    /\ highlighted_item' = None
    /\ call' = MenuCall("close_menu", "done", 0, 0, <<>>, 0, 0, 0)
    /\ UNCHANGED tree_vars

\* The body of `if let Some(active) = self.active_menu` in next_menu and
\* prev_menu, r being the outcome of the index arithmetic.
set_active_menu(op, total_menus, r) ==
    IF r.ok
    THEN /\ active_menu' = Some(r.value)
         /\ highlighted_item' = Some(0)
         /\ call' = MenuCall(op, "done", 0, total_menus, <<>>, 0, 0, 0)
    ELSE /\ call' = MenuCall(op, "panic", 0, total_menus, <<>>, 0, 0, 0)
         /\ UNCHANGED <<active_menu, highlighted_item>>

next_menu(total_menus) ==
    /\ Idle
    /\ IF active_menu.some
       THEN \E r \in next_menu_index(active_menu.value, total_menus) :
               set_active_menu("next_menu", total_menus, r)
       ELSE /\ call' = MenuCall("next_menu", "done", 0, total_menus, <<>>,
                                0, 0, 0)
            /\ UNCHANGED <<active_menu, highlighted_item>>
    /\ UNCHANGED tree_vars

prev_menu(total_menus) ==
    /\ Idle
    /\ IF active_menu.some
       THEN \E r \in prev_menu_index(active_menu.value, total_menus) :
               set_active_menu("prev_menu", total_menus, r)
       ELSE /\ call' = MenuCall("prev_menu", "done", 0, total_menus, <<>>,
                                0, 0, 0)
            /\ UNCHANGED <<active_menu, highlighted_item>>
    /\ UNCHANGED tree_vars

\* Fault injection for C19: a loop that skips the items that are not
\* separators.
loop_condition_skips_others(menu, cursor, idx) ==
    ~is_separator(menu[cursor + 1]) /\ cursor # idx

\* The condition of the while loops of next_item and prev_item.
loop_condition(menu, cursor, idx) ==
    is_separator(menu[cursor + 1]) /\ cursor # idx

\* (next + 1) % menu.items.len() and (prev + total - 1) % total.  The
\* operands are at most MaxItems, far from usize::MAX.
step(op, cursor, total) ==
    IF op = "next_item"
    THEN (cursor + 1) % total
    ELSE (cursor + total - 1) % total

\* next_item and prev_item up to their while loop.
enter_item(op, menu) ==
    /\ Idle
    /\ IF highlighted_item.some
       THEN LET idx == highlighted_item.value IN
            call' = MenuCall(op, "loop", 0, 0, menu, idx,
                             step(op, idx, Len(menu)), 0)
       ELSE call' = MenuCall(op, "done", 0, 0, menu, 0, 0, 0)
    /\ UNCHANGED <<active_menu, highlighted_item>>
    /\ UNCHANGED tree_vars

next_item(menu) == enter_item("next_item", menu)

prev_item(menu) == enter_item("prev_item", menu)

\* One run of the body of the while loop.  iters counts the runs, up to
\* MaxItems.
item_loop ==
    /\ call.pc = "loop"
    /\ loop_condition(call.menu, call.cursor, call.idx)
    /\ call' = [call EXCEPT
                  !.cursor = step(call.op, call.cursor, Len(call.menu)),
                  !.iters = IF @ < MaxItems THEN @ + 1 ELSE @]
    /\ UNCHANGED <<active_menu, highlighted_item>>
    /\ UNCHANGED tree_vars

\* The exit of the while loop: self.highlighted_item = Some(next).
item_return ==
    /\ call.pc = "loop"
    /\ ~loop_condition(call.menu, call.cursor, call.idx)
    /\ highlighted_item' = Some(call.cursor)
    /\ call' = [call EXCEPT !.pc = "done"]
    /\ UNCHANGED active_menu
    /\ UNCHANGED tree_vars

NextMenu ==
    \/ \E index \in 0..MaxUsize : open_menu(index)
    \/ close_menu
    \/ \E total_menus \in 1..MaxMenus : next_menu(total_menus)
    \/ \E total_menus \in 1..MaxMenus : prev_menu(total_menus)
    \/ \E menu \in Menus : next_item(menu)
    \/ \E menu \in Menus : prev_item(menu)
    \/ item_loop
    \/ item_return

SpecMenu == Init /\ [][NextMenu]_vars

\* A call that is running keeps running.
SpecMenuFair == SpecMenu /\ WF_vars(item_loop) /\ WF_vars(item_return)

----------------------------------------------------------------------------
(* What the claims speak of *)

\* The receiver of the last call and the tree it returned.
SrcRoot == snaps[last.src].root
NewRoot == snaps[last.snap].root

Children == {"left", "mid", "right"}

\* Every node of the tree t.
RECURSIVE Nodes(_, _)
Nodes(h, t) ==
    IF h[t].leaf
    THEN {t}
    ELSE {t} \cup Nodes(h, h[t].left) \cup Nodes(h, h[t].mid)
            \cup Nodes(h, h[t].right)

\* Where child c of the Internal node t starts, by the cached lengths.
Offset(h, t, c) ==
    CASE c = "left" -> 0
      [] c = "mid" -> len(h, h[t].left)
      [] c = "right" -> len(h, h[t].left) + len(h, h[t].mid)

\* The half-open spans [s1, e1) and [s2, e2) have no position in common.
Disjoint(s1, e1, s2, e2) == (s1..(e1 - 1)) \cap (s2..(e2 - 1)) = {}

----------------------------------------------------------------------------
(* C1 *)

\* C1: on every tree returned by any sequence of successful calls, with
\* content S, insert(i, T) with 0 <= i <= len(S) succeeds and returns a tree
\* whose content is S[0:i] + T + S[i:].
C1_InsertSplices ==
    (last.op = "insert" /\ last.a <= Len(last.pre_bytes))
        => /\ last.ok
           /\ collect_bytes(heap, NewRoot)
                 = SliceTo(last.pre_bytes, last.a) \o last.data
                      \o SliceFrom(last.pre_bytes, last.a)

\* The same on the trees built by in-range calls only.
C1_InsertSplicesInRange ==
    (last.op = "insert" /\ last.a <= Len(last.pre_bytes)
        /\ snaps[last.src].inrange)
        => /\ last.ok
           /\ collect_bytes(heap, NewRoot)
                 = SliceTo(last.pre_bytes, last.a) \o last.data
                      \o SliceFrom(last.pre_bytes, last.a)

----------------------------------------------------------------------------
(* C2 *)

\* C2: on every tree returned by any sequence of successful calls, with
\* content S, remove(start..end) with 0 <= start <= end <= len(S) succeeds
\* and returns a tree whose content is S[0:start] + S[end:].
C2_RemoveCuts ==
    (last.op = "remove" /\ last.a <= last.b /\ last.b <= Len(last.pre_bytes))
        => /\ last.ok
           /\ collect_bytes(heap, NewRoot)
                 = SliceTo(last.pre_bytes, last.a)
                      \o SliceFrom(last.pre_bytes, last.b)

\* The same on the trees built by in-range calls only.
C2_RemoveCutsInRange ==
    (last.op = "remove" /\ last.a <= last.b /\ last.b <= Len(last.pre_bytes)
        /\ snaps[last.src].inrange)
        => /\ last.ok
           /\ collect_bytes(heap, NewRoot)
                 = SliceTo(last.pre_bytes, last.a)
                      \o SliceFrom(last.pre_bytes, last.b)

----------------------------------------------------------------------------
(* C3 *)

\* C3: for every byte sequence S and threshold N > 0, the tree from_slice
\* returns for S has content S, in the original order.
C3_FromSliceContent ==
    last.op = "from_slice"
        => last.ok /\ collect_bytes(heap, NewRoot) = last.data

\* from_slice has split its input twice: the root and one of its children
\* are Internal.
C3_Witness ==
    /\ last.op = "from_slice"
    /\ last.ok
    /\ Len(last.data) > N
    /\ ~heap[NewRoot].leaf
    /\ \E c \in Children : ~heap[heap[NewRoot][c]].leaf

----------------------------------------------------------------------------
(* C4 *)

\* C4: every tree built by new/from_slice/insert/remove calls that succeed
\* with in-range arguments has len() equal to the length of collect_bytes().
C4_LenIsContentLength ==
    \A k \in 1..Len(snaps) :
        snaps[k].inrange
            => len(heap, snaps[k].root)
                  = Len(collect_bytes(heap, snaps[k].root))

\* A non-empty remove has been applied to the result of a non-empty insert.
C4_Witness ==
    /\ last.op = "remove"
    /\ last.ok
    /\ snaps[last.snap].inrange
    /\ last.a < last.b
    /\ snaps[last.src].op = "insert"
    /\ snaps[last.src].data # <<>>
    /\ len(heap, NewRoot) > 0

----------------------------------------------------------------------------
(* C5 *)

\* insert(i, T) on the tree t, then remove(i..i+len(T)) on the result: both
\* succeed and the content is that of t again.
RoundTrip(h, t, i, T) ==
    LET r1 == insert(h, t, i, T) IN
    /\ r1.ok
    /\ LET r2 == remove(r1.heap, r1.root, Range(i, i + Len(T))) IN
       r2.ok /\ collect_bytes(r2.heap, r2.root) = collect_bytes(h, t)

\* C5: on every tree returned so far, with content S, for every index i in
\* [0, len(S)] and every T, insert(i, T) followed by remove(i..i+len(T))
\* gives back the content S.
C5_RoundTrip ==
    \A k \in 1..Len(snaps) :
        \A i \in 0..Len(collect_bytes(heap, snaps[k].root)) :
            \A T \in Datas : RoundTrip(heap, snaps[k].root, i, T)

\* The same on the trees built by in-range calls only.
C5_RoundTripInRange ==
    \A k \in 1..Len(snaps) :
        snaps[k].inrange =>
            \A i \in 0..Len(collect_bytes(heap, snaps[k].root)) :
                \A T \in Datas : RoundTrip(heap, snaps[k].root, i, T)

----------------------------------------------------------------------------
(* C6 *)

\* The receiver of a failed call is as it was, and no tree was returned.
FailedCallChangedNothing ==
    /\ Len(snaps) = last.pre_snaps
    /\ len(heap, SrcRoot) = last.pre_size
    /\ collect_bytes(heap, SrcRoot) = last.pre_bytes

\* C6: insert(index, data) on any tree returned so far fails exactly when
\* index > t.len(); a failed insert returns no tree and leaves t's len() and
\* collect_bytes() unchanged.
C6_InsertFailsIffBeyondLen ==
    last.op = "insert"
        => /\ last.ok <=> last.a <= last.pre_size
           /\ ~last.ok => FailedCallChangedNothing

\* The same on the trees built by in-range calls only.
C6_InsertFailsIffBeyondLenInRange ==
    (last.op = "insert" /\ snaps[last.src].inrange)
        => /\ last.ok <=> last.a <= last.pre_size
           /\ ~last.ok => FailedCallChangedNothing

----------------------------------------------------------------------------
(* C7 *)

\* C7: remove(range) on any tree returned so far fails whenever
\* range.end > t.len() or range.start > t.len() (it never returns a tree for
\* such a range); the failed remove returns no tree and leaves t's len() and
\* collect_bytes() unchanged.
C7_RemoveFailsBeyondLen ==
    (last.op = "remove" /\ (last.a > last.pre_size \/ last.b > last.pre_size))
        => ~last.ok /\ FailedCallChangedNothing

\* remove has failed on an Internal root for a range whose start alone is
\* beyond len().
C7_Witness ==
    /\ last.op = "remove"
    /\ ~last.ok
    /\ ~heap[SrcRoot].leaf
    /\ last.a > last.pre_size
    /\ last.b <= last.pre_size
    /\ FailedCallChangedNothing

----------------------------------------------------------------------------
(* C8 *)

\* C8: every tree ever returned still has the len() and the collect_bytes()
\* it had when it was returned, whatever insert and remove calls were made
\* since, on it or on trees derived from it.
C8_SnapshotIsolation ==
    \A k \in 1..Len(snaps) :
        /\ collect_bytes(heap, snaps[k].root) = snaps[k].bytes
        /\ len(heap, snaps[k].root) = snaps[k].size

\* Two different edits have been applied to the same tree, and the three
\* contents differ.
C8_Witness ==
    \E m, j, k \in 1..Len(snaps) :
        /\ j # k
        /\ snaps[j].src = m
        /\ snaps[k].src = m
        /\ snaps[j].op = "insert"
        /\ snaps[k].op = "remove"
        /\ snaps[j].bytes # snaps[m].bytes
        /\ snaps[k].bytes # snaps[m].bytes
        /\ collect_bytes(heap, snaps[m].root) = snaps[m].bytes

----------------------------------------------------------------------------
(* C9 *)

\* Down the insert path from old to new: at each Internal node exactly one
\* child is replaced and the other two are the same nodes as before.
RECURSIVE InsertShares(_, _, _)
InsertShares(h, old, new) ==
    IF h[old].leaf
    THEN TRUE
    ELSE /\ ~h[new].leaf
         /\ \E c \in Children :
               /\ h[new][c] # h[old][c]
               /\ \A d \in Children \ {c} : h[new][d] = h[old][d]
               /\ InsertShares(h, h[old][c], h[new][c])

\* C9: a successful insert on an Internal node replaces exactly one child
\* and shares the other two with the pre-edit node, at every Internal node
\* along the insert path.
C9_InsertShares ==
    (last.op = "insert" /\ last.ok /\ ~heap[SrcRoot].leaf)
        => InsertShares(heap, SrcRoot, NewRoot)

\* The length of the insert path below old: the number of Internal nodes on
\* it.
RECURSIVE PathLength(_, _, _)
PathLength(h, old, new) ==
    IF h[old].leaf \/ h[new].leaf
    THEN 0
    ELSE LET changed == {c \in Children : h[new][c] # h[old][c]} IN
         IF Cardinality(changed) # 1
         THEN 1
         ELSE LET c == CHOOSE x \in changed : TRUE
              IN  1 + PathLength(h, h[old][c], h[new][c])

\* An insert has gone through two Internal nodes, sharing a non-empty
\* subtree.
C9_Witness ==
    /\ last.op = "insert"
    /\ last.ok
    /\ ~heap[SrcRoot].leaf
    /\ PathLength(heap, SrcRoot, NewRoot) >= 2
    /\ \E c \in Children :
          /\ heap[NewRoot][c] = heap[SrcRoot][c]
          /\ len(heap, heap[NewRoot][c]) > 0

----------------------------------------------------------------------------
(* C10 *)

\* Every subtree of old whose span does not meet range is the same node in
\* new.
RECURSIVE RemoveShares(_, _, _, _)
RemoveShares(h, old, new, range) ==
    IF h[old].leaf \/ h[new].leaf
    THEN TRUE
    ELSE \A c \in Children :
            LET off == Offset(h, old, c)
                child == h[old][c]
            IN  IF Disjoint(off, off + len(h, child), range.start, range.end)
                THEN h[new][c] = child
                ELSE RemoveShares(h, child, h[new][c],
                                  range_shift_left(range, off))

\* C10 as claimed: after a successful remove on an Internal node, every
\* subtree whose byte span does not intersect the removed range is
\* reference-identical in the new tree to the pre-edit subtree.
C10_RemoveShares ==
    (last.op = "remove" /\ last.ok /\ ~heap[SrcRoot].leaf)
        => RemoveShares(heap, SrcRoot, NewRoot, Range(last.a, last.b))

\* C10 as amended: a successful remove on an Internal node shares nothing:
\* every node of the new tree is newly allocated, none is a node of the
\* pre-edit tree; for a range with start <= end, a child whose byte span
\* does not intersect the range is rebuilt with the same content.
C10_RemoveRebuilds ==
    (last.op = "remove" /\ last.ok /\ ~heap[SrcRoot].leaf)
        => /\ \A n \in Nodes(heap, NewRoot) : n > last.pre_heap
           /\ Nodes(heap, NewRoot) \cap Nodes(heap, SrcRoot) = {}
           /\ ~heap[NewRoot].leaf
           /\ last.a <= last.b =>
                 \A c \in Children :
                    LET off == Offset(heap, SrcRoot, c)
                        child == heap[SrcRoot][c]
                    IN  Disjoint(off, off + len(heap, child), last.a, last.b)
                           => collect_bytes(heap, heap[NewRoot][c])
                                 = collect_bytes(heap, child)

\* A non-empty range has been removed from an Internal node that has a
\* non-empty child outside the range.
C10_Witness ==
    /\ last.op = "remove"
    /\ last.ok
    /\ ~heap[SrcRoot].leaf
    /\ last.a < last.b
    /\ \E c \in Children :
          LET off == Offset(heap, SrcRoot, c)
              child == heap[SrcRoot][c]
          IN  /\ len(heap, child) > 0
              /\ Disjoint(off, off + len(heap, child), last.a, last.b)
              /\ heap[NewRoot][c] # child
              /\ collect_bytes(heap, heap[NewRoot][c])
                    = collect_bytes(heap, child)

----------------------------------------------------------------------------
(* C11 *)

\* Every Internal node of the tree t caches the sum of its children's
\* lengths.
SizesCached(h, t) ==
    \A n \in Nodes(h, t) :
        ~h[n].leaf
            => h[n].size = len(h, h[n].left) + len(h, h[n].mid)
                              + len(h, h[n].right)

\* C11: in every tree built by new/from_slice/insert/remove calls that
\* succeed with in-range arguments, every Internal node at every depth has
\* size = len(left) + len(mid) + len(right).
C11_SizeIsCached ==
    \A k \in 1..Len(snaps) :
        snaps[k].inrange => SizesCached(heap, snaps[k].root)

\* A non-empty range has been removed, in range, from a tree with Internal
\* nodes below its root, and bytes remain.
C11_Witness ==
    /\ last.op = "remove"
    /\ last.ok
    /\ snaps[last.snap].inrange
    /\ last.a < last.b
    /\ ~heap[SrcRoot].leaf
    /\ \E c \in Children : ~heap[heap[SrcRoot][c]].leaf
    /\ len(heap, NewRoot) > 0

----------------------------------------------------------------------------
(* C12 *)

\* The tree t is a single Leaf holding data when data has at most N bytes;
\* otherwise an Internal node whose mid is an empty Leaf and whose left and
\* right have this shape for data[..len/2] and data[len/2..].
RECURSIVE FromSliceShape(_, _, _)
FromSliceShape(h, t, data) ==
    IF Len(data) <= N
    THEN h[t].leaf /\ h[t].data = data
    ELSE /\ ~h[t].leaf
         /\ h[h[t].mid].leaf
         /\ h[h[t].mid].data = <<>>
         /\ FromSliceShape(h, h[t].left, SliceTo(data, Len(data) \div 2))
         /\ FromSliceShape(h, h[t].right, SliceFrom(data, Len(data) \div 2))

\* C12: from_slice returns a single Leaf holding the input when its length
\* is at most N, and otherwise an Internal node split at floor(len / 2);
\* every Internal node of the returned tree has an empty Leaf as mid.
C12_FromSliceShape ==
    last.op = "from_slice"
        => last.ok /\ FromSliceShape(heap, NewRoot, last.data)

\* from_slice has split an input of odd length, and a half of it again.
C12_Witness ==
    /\ last.op = "from_slice"
    /\ last.ok
    /\ Len(last.data) % 2 = 1
    /\ ~heap[NewRoot].leaf
    /\ ~heap[heap[NewRoot].right].leaf
    /\ len(heap, heap[NewRoot].left) < len(heap, heap[NewRoot].right)

----------------------------------------------------------------------------
(* C15 *)

\* The number of Internal levels above the deepest Leaf of t.
RECURSIVE Depth(_, _)
Depth(h, t) ==
    IF h[t].leaf
    THEN 0
    ELSE LET l == Depth(h, h[t].left)
             m == Depth(h, h[t].mid)
             r == Depth(h, h[t].right)
             lm == IF l >= m THEN l ELSE m
         IN  1 + (IF lm >= r THEN lm ELSE r)

\* The least k with length <= chunk * 2^k, counted from k: ceil(log2(length /
\* chunk)) for length > chunk.
RECURSIVE LeastDoubling(_, _, _)
LeastDoubling(length, chunk, k) ==
    IF length <= chunk THEN k ELSE LeastDoubling(length, 2 * chunk, k + 1)

\* C15: the tree from_slice returns for an input of length len has depth
\* ceil(log2(len / N)), the least k with len <= N * 2^k, when len > N, and
\* depth 0 when len <= N.
C15_FromSliceDepth ==
    last.op = "from_slice"
        => Depth(heap, NewRoot) = LeastDoubling(Len(last.data), N, 0)

\* from_slice has built a tree of depth 3 from a length that is not N times
\* a power of two.
C15_Witness ==
    /\ last.op = "from_slice"
    /\ last.ok
    /\ Depth(heap, NewRoot) = 3
    /\ Len(last.data) \notin {4 * N, 8 * N}

----------------------------------------------------------------------------
(* C13 *)

\* Child c of new is a new node and the other two children are the same
\* nodes as in old.
ReplacesOnly(h, old, new, c) ==
    /\ ~h[new].leaf
    /\ h[new][c] # h[old][c]
    /\ \A d \in Children \ {c} : h[new][d] = h[old][d]

\* C13: a successful insert(index, data) on an Internal node replaces only
\* left when index <= len(left), ties included; only mid when
\* len(left) < index <= len(left) + len(mid); only right otherwise.  With an
\* empty mid, no index goes to mid.
C13_InsertTiesGoLeft ==
    (last.op = "insert" /\ last.ok /\ ~heap[SrcRoot].leaf)
        => LET left_size == len(heap, heap[SrcRoot].left)
               mid_size == len(heap, heap[SrcRoot].mid)
           IN  /\ last.a <= left_size
                     => ReplacesOnly(heap, SrcRoot, NewRoot, "left")
               /\ (left_size < last.a /\ last.a <= left_size + mid_size)
                     => ReplacesOnly(heap, SrcRoot, NewRoot, "mid")
               /\ left_size + mid_size < last.a
                     => ReplacesOnly(heap, SrcRoot, NewRoot, "right")
               /\ mid_size = 0
                     => heap[NewRoot].mid = heap[SrcRoot].mid

\* An insert at index = len(left) > 0, with mid empty and right not, has
\* replaced left.
C13_Witness ==
    /\ last.op = "insert"
    /\ last.ok
    /\ ~heap[SrcRoot].leaf
    /\ last.a = len(heap, heap[SrcRoot].left)
    /\ last.a > 0
    /\ len(heap, heap[SrcRoot].mid) = 0
    /\ len(heap, heap[SrcRoot].right) > 0
    /\ last.data # <<>>
    /\ ReplacesOnly(heap, SrcRoot, NewRoot, "left")

\* An insert strictly inside a non-empty mid has replaced mid.
C13_WitnessMid ==
    /\ last.op = "insert"
    /\ last.ok
    /\ ~heap[SrcRoot].leaf
    /\ len(heap, heap[SrcRoot].left) < last.a
    /\ ReplacesOnly(heap, SrcRoot, NewRoot, "mid")

----------------------------------------------------------------------------
(* C14 *)

\* remove(range) on t passes its two assertions at every Internal node it
\* visits, each child receiving the range shifted left by the lengths of the
\* children before it and clipped to its own length.
RECURSIVE AssertsPass(_, _, _)
AssertsPass(h, t, range) ==
    IF h[t].leaf
    THEN TRUE
    ELSE LET left == h[t].left
             mid == h[t].mid
             right == h[t].right
             rl == range_cap(range, len(h, left))
             rm == range_cap(range_shift_left(range, len(h, left)),
                             len(h, mid))
             rr == range_cap(range_shift_left(range,
                                              len(h, left) + len(h, mid)),
                             len(h, right))
             new_left == remove(h, left, rl)
             new_mid == remove(h, mid, rm)
             new_right == remove(h, right, rr)
         IN  /\ AssertsPass(h, left, rl)
             /\ AssertsPass(h, mid, rm)
             /\ AssertsPass(h, right, rr)
             /\ new_left.ok /\ new_mid.ok /\ new_right.ok
             /\ remove_asserts(h[t].size,
                               len(new_left.heap, new_left.root)
                                  + len(new_mid.heap, new_mid.root)
                                  + len(new_right.heap, new_right.root),
                               range)

\* C14: on every tree returned so far, remove(start..end) with
\* start <= end <= len passes both assertions at every Internal node
\* visited: new_size <= size and size - len(range clipped to [0, size])
\* = new_size.
C14_RemoveAssertsPass ==
    (last.op = "remove" /\ last.a <= last.b /\ last.b <= last.pre_size)
        => AssertsPass(heap, SrcRoot, Range(last.a, last.b))

\* The same on the trees built by in-range calls only.
C14_RemoveAssertsPassInRange ==
    (last.op = "remove" /\ last.a <= last.b /\ last.b <= last.pre_size
        /\ snaps[last.src].inrange)
        => last.ok /\ AssertsPass(heap, SrcRoot, Range(last.a, last.b))

----------------------------------------------------------------------------
(* C16 *)

\* C16: no call rebalances: a successful remove, of an empty range too,
\* returns a tree exactly one level higher than its receiver, and a
\* successful insert returns a tree at least as high as its receiver, so
\* that the height never decreases along a sequence of edits.
C16_HeightNeverDecreases ==
    /\ (last.op = "remove" /\ last.ok)
          => Depth(heap, NewRoot) = Depth(heap, SrcRoot) + 1
    /\ (last.op = "insert" /\ last.ok)
          => Depth(heap, NewRoot) >= Depth(heap, SrcRoot)

\* Two removes in a row, the second of an empty range, have left the
\* content no longer than it was and the tree two levels higher.
C16_Witness ==
    /\ last.op = "remove"
    /\ last.ok
    /\ last.a = last.b
    /\ snaps[last.src].op = "remove"
    /\ snaps[last.src].src > 0
    /\ ~heap[snaps[snaps[last.src].src].root].leaf
    /\ Depth(heap, NewRoot)
          = Depth(heap, snaps[snaps[last.src].src].root) + 2
    /\ len(heap, NewRoot) <= len(heap, snaps[snaps[last.src].src].root)

----------------------------------------------------------------------------
(* C17 *)

\* C17: in every tree returned by new, from_slice, insert or remove, every
\* Leaf holds at most N bytes.
C17_LeafAtMostN ==
    \A k \in 1..Len(snaps) :
        \A n \in Nodes(heap, snaps[k].root) :
            heap[n].leaf => Len(heap[n].data) <= N

\* An insert of more than N bytes has returned, and so has a remove that
\* left more than N bytes of one Leaf.
C17_Witness ==
    /\ last.op = "insert"
    /\ last.ok
    /\ Len(last.data) > N
    /\ \E k \in 1..Len(snaps) :
          /\ snaps[k].op = "remove"
          /\ snaps[k].src > 0
          /\ Len(snaps[k].bytes) > N

----------------------------------------------------------------------------
(* C18 *)

\* C18: a remove whose range has start > end, both at most len(), that
\* returns, returns a tree whose len() is the length of its content, whose
\* Internal nodes all cache the sum of their children's lengths, and whose
\* content is the receiver's content.
C18_InvertedRangeIsEmpty ==
    (last.op = "remove" /\ last.ok /\ last.a > last.b
        /\ last.a <= last.pre_size /\ last.b <= last.pre_size)
        => /\ len(heap, NewRoot) = Len(collect_bytes(heap, NewRoot))
           /\ SizesCached(heap, NewRoot)
           /\ collect_bytes(heap, NewRoot) = last.pre_bytes

----------------------------------------------------------------------------
(* C19 *)

\* The index d places after idx (next_item) or before idx (prev_item),
\* cyclically, in a menu of total items.
Around(op, idx, d, total) ==
    IF op = "next_item"
    THEN (idx + d) % total
    ELSE (idx + total - d) % total

\* The nearest item cyclically after (before) idx that is not a Separator,
\* or idx when every other item is a Separator.
Nearest(op, menu, idx) ==
    LET total == Len(menu)
        ds == {d \in 1..(total - 1) :
                  ~is_separator(menu[Around(op, idx, d, total) + 1])}
    IN  IF ds = {}
        THEN idx
        ELSE Around(op, idx, CHOOSE d \in ds : \A e \in ds : d <= e, total)

\* next_item and prev_item called with highlighted_item = None return with
\* both fields as they were; called with Some(idx), idx < menu.items.len(),
\* they run the loop body fewer than menu.items.len() times and return with
\* highlighted_item = Some(Nearest) and active_menu as it was.
C19_SkipsSeparators ==
    call.op \in {"next_item", "prev_item"}
        => /\ (call.pc = "done" /\ ~call.pre_highlighted.some)
                 => /\ highlighted_item = None
                    /\ active_menu = call.pre_active
                    /\ call.iters = 0
           /\ (call.pre_highlighted.some /\ call.idx < Len(call.menu))
                 => /\ call.pc \in {"loop", "done"}
                    /\ call.iters < Len(call.menu)
                    /\ call.pc = "done"
                          => /\ highlighted_item
                                   = Some(Nearest(call.op, call.menu, call.idx))
                             /\ active_menu = call.pre_active

\* A call with idx < menu.items.len() that is in its loop leaves it.
C19_Terminates ==
    (call.pc = "loop" /\ call.idx < Len(call.menu)) ~> (call.pc = "done")

\* C19: for every non-empty menu and highlighted index idx <
\* menu.items.len(), next_item (prev_item) terminates and sets
\* highlighted_item to the nearest item cyclically after (before) idx that
\* is not a Separator, or leaves it at idx when every other item is a
\* Separator; when highlighted_item is None it changes nothing.
C19_ItemNavigation == []C19_SkipsSeparators /\ C19_Terminates

\* next_item has returned after skipping a Separator and wrapping around
\* the end of the menu.
C19_Witness ==
    /\ call.op = "next_item"
    /\ call.pc = "done"
    /\ call.pre_highlighted.some
    /\ call.idx < Len(call.menu)
    /\ call.iters >= 1
    /\ highlighted_item.value < call.idx

\* prev_item has returned to idx: every other item is a Separator.
C19_WitnessAllSeparators ==
    /\ call.op = "prev_item"
    /\ call.pc = "done"
    /\ call.pre_highlighted.some
    /\ Len(call.menu) = MaxItems
    /\ call.idx < Len(call.menu)
    /\ call.iters = Len(call.menu) - 1
    /\ highlighted_item = Some(call.idx)

\* A call with idx >= menu.items.len() on a menu of Separators alone has
\* run its loop body MaxItems times and is still in the loop.
C19_WitnessOutside ==
    /\ call.pc = "loop"
    /\ call.idx >= Len(call.menu)
    /\ call.iters = MaxItems
    /\ \A i \in 1..Len(call.menu) : is_separator(call.menu[i])

----------------------------------------------------------------------------
(* C20 *)

\* active_menu is Some if and only if highlighted_item is Some.
Coupled == active_menu.some <=> highlighted_item.some

\* The last call is next_menu or prev_menu.
MenuMove == call.op \in {"next_menu", "prev_menu"}

\* C20: from MenuState::new(), after any sequence of open_menu, close_menu,
\* next_menu, prev_menu (total_menus > 0), next_item and prev_item
\* (non-empty menu) calls, active_menu is Some iff highlighted_item is Some;
\* next_menu and prev_menu on a closed menu bar change nothing, and on an
\* open one leave active_menu < total_menus and highlighted_item = Some(0).
C20_MenuCoupling ==
    /\ Coupled
    /\ (MenuMove /\ ~call.pre_active.some)
          => /\ active_menu = call.pre_active
             /\ highlighted_item = call.pre_highlighted
    /\ (MenuMove /\ call.pre_active.some)
          => /\ active_menu.some
             /\ active_menu.value < call.total_menus
             /\ highlighted_item = Some(0)

\* The same, of the calls whose index arithmetic stays within usize:
\* active + total_menus <= usize::MAX.
C20_MenuCouplingInRange ==
    /\ Coupled
    /\ (MenuMove /\ ~call.pre_active.some)
          => /\ call.pc = "done"
             /\ active_menu = call.pre_active
             /\ highlighted_item = call.pre_highlighted
    /\ (MenuMove /\ call.pre_active.some
           /\ call.pre_active.value + call.total_menus <= MaxUsize)
          => /\ call.pc = "done"
             /\ active_menu.some
             /\ active_menu.value < call.total_menus
             /\ highlighted_item = Some(0)

====
